---- MODULE Spec2Model ----
(***************************************************************************)
(* Model of motd_stress_test_optimized.py: the submission loop, the       *)
(* ThreadPoolExecutor worker pool, query_motd_sync's retry loop, the      *)
(* as_completed collecting loop, the KeyboardInterrupt handler and the    *)
(* final report.  The main thread is a program counter over the           *)
(* statements of main(); KeyboardInterrupt may arrive between any two     *)
(* statements inside the try block.                                       *)
(***************************************************************************)
EXTENDS Integers, Sequences, FiniteSets, TLC

\* ---- bounds of the model ------------------------------------------------
MaxConcurrency == 2
MaxTotal == 3
MaxQps == 1
MaxRetries == 2
MaxLatency == 1
MaxTimeout == 1
MaxSamples == 150

VARIABLES
    concurrency,     \* args.concurrency
    total,           \* args.total
    qps,             \* args.qps
    retries,         \* args.retries
    timeout,         \* args.timeout, in whole seconds
    pc,              \* position of the main thread in main()
    i,               \* loop variable of "for i in range(total)"
    sleeps,          \* number of time.sleep(delay_per_req) calls performed
    reqs,            \* sum of the values of req_per_second
    task,            \* the work items handed to the executor, by number
    queue,           \* the executor's FIFO work queue (pending work items)
    future,          \* local "future" of the submission loop (0: unset)
    futures,         \* list "futures"
    submitted,       \* counter "submitted"
    completed,       \* counter "completed" of the collecting loop
    yielded,         \* futures as_completed has already yielded
    fut,             \* loop variable "fut" (0: unset)
    elapsed_ms,      \* local "elapsed_ms" of the collecting loop / handler
    stats,           \* the global dict "stats"
    cancelled,       \* KeyboardInterrupt has been raised in the main thread
    hidx,            \* position of "for fut in futures" in the handler
    done_count,      \* counter "done_count" of the handler
    report,          \* what print_stats was called with
    folds,           \* per future: increments it has caused in success/failure
    lastWrite,       \* what the last write to the console was
    p99_in,          \* print_stats: the list "latencies" it is given
    p99_out          \* print_stats: the value "p99" (0: not computed)

vars == <<concurrency, total, qps, retries, pc, i, sleeps, reqs, task, queue,
          future, futures, submitted, completed, yielded, fut, elapsed_ms,
          stats, cancelled, hidx, done_count, report, timeout, folds,
          lastWrite, p99_in, p99_out>>

cfgVars == <<concurrency, total, qps, retries, timeout>>

p99Vars == <<p99_in, p99_out>>

\* ---- helpers --------------------------------------------------------------
Tasks == 1..total

NewTask == [st |-> "new", attempt |-> 0, calls |-> 0, okcalls |-> 0,
            warns |-> 0, res |-> "none", lat |-> 0]

Running == Cardinality({t \in Tasks : task[t].st = "running"})

Queued == Len(queue)

PoolTasks == {t \in Tasks : task[t].st # "new"}

Unfinished == Cardinality({t \in Tasks : task[t].st \in {"pending", "running"}})

FutureDone(f) == task[f].st = "done"

SeqToSet(s) == {s[k] : k \in 1..Len(s)}

\* parameter validation of main()
ValidArgs_NoTimeout(c, n, q, t, r) == ~(c <= 0 \/ n <= 0 \/ q < 0 \/ r < 0)

ValidArgs(c, n, q, t, r) ==
    ~(c <= 0 \/ n <= 0 \/ q < 0 \/ t <= 0 \/ r < 0)

HasDelay_Above1 == qps > 1

\* delay_per_req > 0
HasDelay == qps > 0

\* where the submission loop goes at the head of iteration k
LoopHead(k) == IF k >= total THEN "collect_init"
               ELSE IF HasDelay THEN "sleep" ELSE "count"

\* statements of main() that are inside the try block
TryPcs == {"sleep", "count", "submit", "append", "inc", "collect_init",
           "as_completed", "result", "try_inc", "try_append", "except_print",
           "except_draw", "except_log", "except_inc",
           "else_inc", "completed_inc", "exit"}

\* ---- initial state --------------------------------------------------------
Init ==
    /\ concurrency \in 0..MaxConcurrency
    /\ total \in 0..MaxTotal
    /\ qps \in (-1)..MaxQps
    /\ retries \in (-1)..MaxRetries
    /\ timeout \in 0..MaxTimeout
    /\ pc = "idle"
    /\ i = 0
    /\ sleeps = 0
    /\ reqs = 0
    /\ task = [t \in Tasks |-> NewTask]
    /\ queue = <<>>
    /\ future = 0
    /\ futures = <<>>
    /\ submitted = 0
    /\ completed = 0
    /\ yielded = {}
    /\ fut = 0
    /\ elapsed_ms = 0
    /\ stats = [success |-> 0, failure |-> 0, latencies |-> <<>>]
    /\ cancelled = FALSE
    /\ hidx = 0
    /\ done_count = 0
    /\ report = [kind |-> "none", success |-> 0, failure |-> 0,
                 samples |-> 0, total_requests |-> 0]
    /\ folds = [t \in Tasks |-> 0]
    /\ lastWrite = "none"
    /\ p99_in = <<>>
    /\ p99_out = 0

\* ---- main thread: validation and submission loop ---------------------------
Validate ==
    /\ pc = "idle"
    /\ pc' = IF ValidArgs(concurrency, total, qps, timeout, retries)
             THEN LoopHead(0) ELSE "Rejected"
    /\ UNCHANGED <<cfgVars, p99Vars, folds, lastWrite, i, sleeps, reqs, task, queue, future, futures,
                   submitted, completed, yielded, fut, elapsed_ms, stats,
                   cancelled, hidx, done_count, report>>

RateSleep ==
    /\ pc = "sleep"
    /\ sleeps' = sleeps + 1
    /\ pc' = "count"
    /\ UNCHANGED <<cfgVars, p99Vars, folds, lastWrite, i, reqs, task, queue, future, futures,
                   submitted, completed, yielded, fut, elapsed_ms, stats,
                   cancelled, hidx, done_count, report>>

CountRequest ==
    /\ pc = "count"
    /\ reqs' = reqs + 1
    /\ pc' = "submit"
    /\ UNCHANGED <<cfgVars, p99Vars, folds, lastWrite, i, sleeps, task, queue, future, futures,
                   submitted, completed, yielded, fut, elapsed_ms, stats,
                   cancelled, hidx, done_count, report>>

ExecutorSubmit_Blocking ==
    /\ pc = "submit"
    /\ Running < concurrency
    /\ LET t == Cardinality(PoolTasks) + 1 IN
         /\ task' = [task EXCEPT ![t].st = "pending"]
         /\ queue' = Append(queue, t)
         /\ future' = t
    /\ pc' = "append"
    /\ UNCHANGED <<cfgVars, p99Vars, folds, lastWrite, i, sleeps, reqs, futures, submitted, completed,
                   yielded, fut, elapsed_ms, stats, cancelled, hidx,
                   done_count, report>>

\* executor.submit never blocks: the work item goes into an unbounded queue
ExecutorSubmit ==
    /\ pc = "submit"
    /\ LET t == Cardinality(PoolTasks) + 1 IN
         /\ task' = [task EXCEPT ![t].st = "pending"]
         /\ queue' = Append(queue, t)
         /\ future' = t
    /\ pc' = "append"
    /\ UNCHANGED <<cfgVars, p99Vars, folds, lastWrite, i, sleeps, reqs, futures, submitted, completed,
                   yielded, fut, elapsed_ms, stats, cancelled, hidx,
                   done_count, report>>

AppendFuture ==
    /\ pc = "append"
    /\ futures' = Append(futures, future)
    /\ pc' = "inc"
    /\ UNCHANGED <<cfgVars, p99Vars, folds, lastWrite, i, sleeps, reqs, task, queue, future,
                   submitted, completed, yielded, fut, elapsed_ms, stats,
                   cancelled, hidx, done_count, report>>

IncSubmitted ==
    /\ pc = "inc"
    /\ submitted' = submitted + 1
    /\ i' = i + 1
    /\ pc' = LoopHead(i + 1)
    /\ lastWrite' = "progress"
    /\ UNCHANGED <<cfgVars, p99Vars, folds, sleeps, reqs, task, queue, future, futures,
                   completed, yielded, fut, elapsed_ms, stats,
                   cancelled, hidx, done_count, report>>

\* ---- worker pool: ThreadPoolExecutor(max_workers=concurrency) --------------
PoolHasIdleWorker_OffByOne(running, max_workers) == running <= max_workers

PoolHasIdleWorker_Starved(running, max_workers) == running < max_workers - 1

\* a work item is taken from the queue only by one of max_workers threads
PoolHasIdleWorker(running, max_workers) == running < max_workers

\* a worker thread takes the oldest queued work item and starts running it;
\* nothing here looks at the state of the main thread
StartTask ==
    /\ queue # <<>>
    /\ PoolHasIdleWorker(Running, concurrency)
    /\ task' = [task EXCEPT ![Head(queue)].st = "running"]
    /\ queue' = Tail(queue)
    /\ UNCHANGED <<cfgVars, p99Vars, folds, lastWrite, pc, i, sleeps, reqs, future, futures, submitted,
                   completed, yielded, fut, elapsed_ms, stats, cancelled,
                   hidx, done_count, report>>

RetryAllowed_OffByOne(attempt, r) == attempt < r + 1

\* "if attempt < retries" in the except clause of query_motd_sync
RetryAllowed(attempt, r) == attempt < r

\* one iteration of "for attempt in range(retries + 1)" whose status() call
\* returned: logger.info, return elapsed_ms
AttemptSuccess(rec, l) ==
    [rec EXCEPT !.calls = @ + 1, !.okcalls = @ + 1, !.res = "ok", !.lat = l,
                !.st = "done"]

\* one iteration whose status() call raised: warning and continue while
\* retries remain, otherwise re-raise
AttemptFailure(rec, r) ==
    IF RetryAllowed(rec.attempt, r)
    THEN [rec EXCEPT !.calls = @ + 1, !.warns = @ + 1, !.attempt = @ + 1]
    ELSE [rec EXCEPT !.calls = @ + 1, !.res = "exc", !.st = "done"]

ProbeSucceeds ==
    /\ \E t \in Tasks, l \in 1..MaxLatency :
         /\ task[t].st = "running"
         /\ task' = [task EXCEPT ![t] = AttemptSuccess(task[t], l)]
    /\ UNCHANGED <<cfgVars, p99Vars, folds, lastWrite, pc, i, sleeps, reqs, queue, future, futures,
                   submitted, completed, yielded, fut, elapsed_ms, stats,
                   cancelled, hidx, done_count, report>>

ProbeFails ==
    /\ \E t \in Tasks :
         /\ task[t].st = "running"
         /\ task' = [task EXCEPT ![t] = AttemptFailure(task[t], retries)]
         /\ lastWrite' = IF RetryAllowed(task[t].attempt, retries)
                         THEN "warning" ELSE lastWrite
    /\ UNCHANGED <<cfgVars, p99Vars, folds, pc, i, sleeps, reqs, queue, future, futures,
                   submitted, completed, yielded, fut, elapsed_ms, stats,
                   cancelled, hidx, done_count, report>>

\* status() returned but logger.info raised inside the try: the except clause
\* of query_motd_sync handles it like a failed status() call
InfoRaises ==
    /\ \E t \in Tasks :
         /\ task[t].st = "running"
         /\ task' = [task EXCEPT ![t] =
                AttemptFailure([task[t] EXCEPT !.okcalls = @ + 1], retries)]
         /\ lastWrite' = IF RetryAllowed(task[t].attempt, retries)
                         THEN "warning" ELSE lastWrite
    /\ UNCHANGED <<cfgVars, p99Vars, folds, pc, i, sleeps, reqs, queue, future,
                   futures, submitted, completed, yielded, fut, elapsed_ms,
                   stats, cancelled, hidx, done_count, report>>

\* status() raised, retries remain, and logger.warning raised inside the
\* except clause: the new exception leaves query_motd_sync
WarningRaises ==
    /\ \E t \in Tasks :
         /\ task[t].st = "running"
         /\ RetryAllowed(task[t].attempt, retries)
         /\ task' = [task EXCEPT ![t] =
                [task[t] EXCEPT !.calls = @ + 1, !.res = "exc", !.st = "done"]]
    /\ UNCHANGED <<cfgVars, p99Vars, folds, lastWrite, pc, i, sleeps, reqs, queue,
                   future, futures, submitted, completed, yielded, fut,
                   elapsed_ms, stats, cancelled, hidx, done_count, report>>

\* ---- main thread: collecting loop ------------------------------------------
CollectInit ==
    /\ pc = "collect_init"
    /\ completed' = 0
    /\ yielded' = {}
    /\ pc' = "as_completed"
    /\ lastWrite' = "progress"
    /\ UNCHANGED <<cfgVars, p99Vars, folds, i, sleeps, reqs, task, queue, future, futures,
                   submitted, fut, elapsed_ms, stats, cancelled, hidx,
                   done_count, report>>

\* as_completed yields a finished future it has not yielded yet
AsCompletedYield ==
    /\ pc = "as_completed"
    /\ \E f \in SeqToSet(futures) \ yielded :
         /\ FutureDone(f)
         /\ fut' = f
         /\ yielded' = yielded \cup {f}
    /\ pc' = "result"
    /\ UNCHANGED <<cfgVars, p99Vars, folds, lastWrite, i, sleeps, reqs, task, queue, future, futures,
                   submitted, completed, elapsed_ms, stats, cancelled, hidx,
                   done_count, report>>

\* as_completed is exhausted: the for loop ends
AsCompletedEnd ==
    /\ pc = "as_completed"
    /\ SeqToSet(futures) \subseteq yielded
    /\ pc' = "exit"
    /\ UNCHANGED <<cfgVars, p99Vars, folds, lastWrite, i, sleeps, reqs, task, queue, future, futures,
                   submitted, completed, yielded, fut, elapsed_ms, stats,
                   cancelled, hidx, done_count, report>>

\* elapsed_ms = fut.result(): returns the latency or re-raises
FutResult ==
    /\ pc = "result"
    /\ IF task[fut].res = "ok"
       THEN elapsed_ms' = task[fut].lat /\ pc' = "try_inc"
       ELSE elapsed_ms' = elapsed_ms /\ pc' = "except_print"
    /\ UNCHANGED <<cfgVars, p99Vars, folds, lastWrite, i, sleeps, reqs, task, queue, future, futures,
                   submitted, completed, yielded, fut, stats, cancelled,
                   hidx, done_count, report>>

\* try body: stats["success"] += 1
TrySuccessInc ==
    /\ pc = "try_inc"
    /\ stats' = [stats EXCEPT !.success = @ + 1]
    /\ pc' = "try_append"
    /\ folds' = [folds EXCEPT ![fut] = @ + 1]
    /\ UNCHANGED <<cfgVars, p99Vars, lastWrite, i, sleeps, reqs, task, queue, future, futures,
                   submitted, completed, yielded, fut, elapsed_ms, cancelled,
                   hidx, done_count, report>>

\* try body: stats["latencies"].append(elapsed_ms)
TryLatencyAppend ==
    /\ pc = "try_append"
    /\ stats' = [stats EXCEPT !.latencies = Append(@, elapsed_ms)]
    /\ pc' = "else_inc"
    /\ UNCHANGED <<cfgVars, p99Vars, folds, lastWrite, i, sleeps, reqs, task, queue, future, futures,
                   submitted, completed, yielded, fut, elapsed_ms, cancelled,
                   hidx, done_count, report>>

\* else clause of the try (runs when the try body did not raise):
\* stats["success"] += 1
ElseSuccessInc ==
    /\ pc = "else_inc"
    /\ stats' = [stats EXCEPT !.success = @ + 1]
    /\ pc' = "completed_inc"
    /\ folds' = [folds EXCEPT ![fut] = @ + 1]
    /\ UNCHANGED <<cfgVars, p99Vars, lastWrite, i, sleeps, reqs, task, queue, future, futures,
                   submitted, completed, yielded, fut, elapsed_ms, cancelled,
                   hidx, done_count, report>>

\* except clause: print(); print("[错误] ... 查询失败") without any lock
ExceptPrint ==
    /\ pc = "except_print"
    /\ lastWrite' = "error"
    /\ pc' = "except_draw"
    /\ UNCHANGED <<cfgVars, p99Vars, folds, i, sleeps, reqs, task, queue, future,
                   futures, submitted, completed, yielded, fut, elapsed_ms,
                   stats, cancelled, hidx, done_count, report>>

\* except clause: draw_progress("收集中", completed, total)
ExceptRedraw ==
    /\ pc = "except_draw"
    /\ lastWrite' = "progress"
    /\ pc' = "except_log"
    /\ UNCHANGED <<cfgVars, p99Vars, folds, i, sleeps, reqs, task, queue, future,
                   futures, submitted, completed, yielded, fut, elapsed_ms,
                   stats, cancelled, hidx, done_count, report>>

\* except clause: logger.error, which the console handler prints
ExceptLog ==
    /\ pc = "except_log"
    /\ lastWrite' = "log_error"
    /\ pc' = "except_inc"
    /\ UNCHANGED <<cfgVars, p99Vars, folds, i, sleeps, reqs, task, queue, future,
                   futures, submitted, completed, yielded, fut, elapsed_ms,
                   stats, cancelled, hidx, done_count, report>>

ExceptFailureInc_NoCount ==
    /\ pc = "except_inc"
    /\ pc' = "completed_inc"
    /\ UNCHANGED <<cfgVars, p99Vars, folds, lastWrite, i, sleeps, reqs, task,
                   queue, future, futures, submitted, completed, yielded, fut,
                   elapsed_ms, stats, cancelled, hidx, done_count, report>>

\* except clause: with stats_lock: stats["failure"] += 1
ExceptFailureInc ==
    /\ pc = "except_inc"
    /\ stats' = [stats EXCEPT !.failure = @ + 1]
    /\ pc' = "completed_inc"
    /\ folds' = [folds EXCEPT ![fut] = @ + 1]
    /\ UNCHANGED <<cfgVars, p99Vars, lastWrite, i, sleeps, reqs, task, queue, future, futures,
                   submitted, completed, yielded, fut, elapsed_ms, cancelled,
                   hidx, done_count, report>>

\* completed += 1; draw_progress
IncCompleted ==
    /\ pc = "completed_inc"
    /\ completed' = completed + 1
    /\ pc' = "as_completed"
    /\ lastWrite' = "progress"
    /\ UNCHANGED <<cfgVars, p99Vars, folds, i, sleeps, reqs, task, queue, future, futures,
                   submitted, yielded, fut, elapsed_ms, stats, cancelled,
                   hidx, done_count, report>>

\* leaving "with ThreadPoolExecutor(...)" normally: shutdown(wait=True)
ExecutorExit ==
    /\ pc = "exit"
    /\ Unfinished = 0
    /\ pc' = "final"
    /\ UNCHANGED <<cfgVars, p99Vars, folds, lastWrite, i, sleeps, reqs, task, queue, future, futures,
                   submitted, completed, yielded, fut, elapsed_ms, stats,
                   cancelled, hidx, done_count, report>>

\* sorted(latencies): ascending, equal values in their original order
Sorted(s) ==
    LET n == Len(s)
        pos == [j \in 1..n |->
                  Cardinality({k \in 1..n : s[k] < s[j]})
                + Cardinality({k \in 1..(j - 1) : s[k] = s[j]}) + 1]
        at == [k \in 1..n |-> CHOOSE j \in 1..n : pos[j] = k]
    IN  [k \in 1..n |-> s[at[k]]]

P99Index_NoMinusOne(n) == (99 * n) \div 100

\* int(len(lat_sorted) * 0.99) - 1, a 0-based index; the float product
\* truncates to floor(99 * n / 100) for every list length up to 2,000,000
P99Index(n) == (99 * n) \div 100 - 1

\* p99 = lat_sorted[int(len(lat_sorted) * 0.99) - 1]
\*           if len(lat_sorted) >= 100 else lat_sorted[-1]
P99(latencies) ==
    LET lat_sorted == Sorted(latencies)
        n == Len(lat_sorted)
    IN  IF n >= 100 THEN lat_sorted[P99Index(n) + 1] ELSE lat_sorted[n]

\* "if latencies:" of print_stats; 0 stands for "no latency data"
PrintStatsP99(latencies) ==
    IF latencies # <<>> THEN P99(latencies) ELSE 0

\* what print_stats reads from the dict it is given
Snapshot(kind, s, total_requests) ==
    [kind |-> kind, success |-> s.success, failure |-> s.failure,
     samples |-> Len(s.latencies), total_requests |-> total_requests]

\* total_requests = stats["success"] + stats["failure"]; print_stats(...)
FinalReport ==
    /\ pc = "final"
    /\ report' = Snapshot("final", stats, stats.success + stats.failure)
    /\ pc' = "Completed"
    /\ lastWrite' = "report"
    /\ p99_in' = stats.latencies
    /\ p99_out' = PrintStatsP99(stats.latencies)
    /\ UNCHANGED <<cfgVars, folds, i, sleeps, reqs, task, queue, future, futures,
                   submitted, completed, yielded, fut, elapsed_ms, stats,
                   cancelled, hidx, done_count>>

KeyboardInterrupt_Swallowed ==
    /\ pc \in TryPcs
    /\ ~cancelled
    /\ cancelled' = TRUE
    /\ UNCHANGED <<cfgVars, p99Vars, folds, lastWrite, pc, i, sleeps, reqs, task,
                   queue, future, futures, submitted, completed, yielded, fut,
                   elapsed_ms, stats, hidx, done_count, report>>

\* ---- KeyboardInterrupt ------------------------------------------------------
\* Ctrl+C raises KeyboardInterrupt in the main thread between two statements
\* of the try block; the exception first leaves the "with" block
KeyboardInterrupt ==
    /\ pc \in TryPcs
    /\ cancelled' = TRUE
    /\ pc' = "shutdown"
    /\ UNCHANGED <<cfgVars, p99Vars, folds, lastWrite, i, sleeps, reqs, task, queue, future, futures,
                   submitted, completed, yielded, fut, elapsed_ms, stats,
                   hidx, done_count, report>>

\* ThreadPoolExecutor.__exit__ on the way out: shutdown(wait=True) joins the
\* worker threads, which first drain the work queue
ExecutorShutdown ==
    /\ pc = "shutdown"
    /\ Unfinished = 0
    /\ pc' = "grace"
    /\ UNCHANGED <<cfgVars, p99Vars, folds, lastWrite, i, sleeps, reqs, task, queue, future, futures,
                   submitted, completed, yielded, fut, elapsed_ms, stats,
                   cancelled, hidx, done_count, report>>

\* except KeyboardInterrupt: time.sleep(0.1); done_count = 0
GraceSleep ==
    /\ pc = "grace"
    /\ done_count' = 0
    /\ hidx' = 1
    /\ pc' = "fold"
    /\ lastWrite' = "interrupt"
    /\ UNCHANGED <<cfgVars, p99Vars, folds, i, sleeps, reqs, task, queue, future, futures,
                   submitted, completed, yielded, fut, elapsed_ms, stats,
                   cancelled, report>>

\* one iteration of "for fut in futures" in the handler
HandlerFold ==
    /\ pc = "fold"
    /\ hidx <= Len(futures)
    /\ LET f == futures[hidx] IN
         /\ fut' = f
         /\ IF FutureDone(f)
            THEN /\ IF task[f].res = "ok"
                    THEN /\ elapsed_ms' = task[f].lat
                         /\ stats' = [stats EXCEPT
                                        !.success = @ + 1,
                                        !.latencies = Append(@, task[f].lat)]
                    ELSE /\ elapsed_ms' = elapsed_ms
                         /\ stats' = [stats EXCEPT !.failure = @ + 1]
                 /\ done_count' = done_count + 1
                 /\ folds' = [folds EXCEPT ![f] = @ + 1]
            ELSE UNCHANGED <<elapsed_ms, stats, done_count, folds>>
    /\ hidx' = hidx + 1
    /\ UNCHANGED <<cfgVars, p99Vars, lastWrite, pc, i, sleeps, reqs, task, queue, future, futures,
                   submitted, completed, yielded, cancelled, report>>

\* draw_progress twice, print_stats(stats, done_count), sys.exit(0)
InterruptReport ==
    /\ pc = "fold"
    /\ hidx > Len(futures)
    /\ report' = Snapshot("interrupt", stats, done_count)
    /\ pc' = "Interrupted"
    /\ lastWrite' = "report"
    /\ p99_in' = stats.latencies
    /\ p99_out' = PrintStatsP99(stats.latencies)
    /\ UNCHANGED <<cfgVars, folds, i, sleeps, reqs, task, queue, future, futures,
                   submitted, completed, yielded, fut, elapsed_ms, stats,
                   cancelled, hidx, done_count>>

Next ==
    \/ Validate
    \/ RateSleep
    \/ CountRequest
    \/ ExecutorSubmit
    \/ AppendFuture
    \/ IncSubmitted
    \/ StartTask
    \/ ProbeSucceeds
    \/ ProbeFails
    \/ CollectInit
    \/ AsCompletedYield
    \/ AsCompletedEnd
    \/ FutResult
    \/ TrySuccessInc
    \/ TryLatencyAppend
    \/ ElseSuccessInc
    \/ ExceptPrint
    \/ ExceptRedraw
    \/ ExceptLog
    \/ ExceptFailureInc
    \/ IncCompleted
    \/ ExecutorExit
    \/ FinalReport
    \/ KeyboardInterrupt
    \/ ExecutorShutdown
    \/ GraceSleep
    \/ HandlerFold
    \/ InterruptReport

Spec == Init /\ [][Next]_vars

\* steps of the main thread while no KeyboardInterrupt arrives
MainStep ==
    \/ Validate
    \/ RateSleep
    \/ CountRequest
    \/ ExecutorSubmit
    \/ AppendFuture
    \/ IncSubmitted
    \/ CollectInit
    \/ AsCompletedYield
    \/ AsCompletedEnd
    \/ FutResult
    \/ TrySuccessInc
    \/ TryLatencyAppend
    \/ ElseSuccessInc
    \/ ExceptPrint
    \/ ExceptRedraw
    \/ ExceptLog
    \/ ExceptFailureInc
    \/ IncCompleted
    \/ ExecutorExit
    \/ FinalReport

\* steps of the worker threads; every status() call returns or raises
WorkerStep ==
    \/ StartTask
    \/ ProbeSucceeds
    \/ ProbeFails

NextNoCancel ==
    \/ MainStep
    \/ WorkerStep

\* a run without Ctrl+C in which the main thread and the workers keep running
FairSpec ==
    /\ Init
    /\ [][NextNoCancel]_vars
    /\ WF_vars(MainStep)
    /\ WF_vars(WorkerStep)

\* ---- print_stats on its own: the P99 of a given list of latencies ------------
Ascending(n) == [k \in 1..n |-> k]

Descending(n) == [k \in 1..n |-> n + 1 - k]

ShortLists == UNION {[1..n -> {10, 20, 30}] : n \in 1..3}

P99Inputs ==
    {Ascending(n) : n \in 1..MaxSamples}
        \cup {Descending(n) : n \in 1..MaxSamples}
        \cup ShortLists

InitP99 ==
    /\ concurrency = 1 /\ total = 1 /\ qps = 0 /\ retries = 0 /\ timeout = 1
    /\ pc = "print_stats"
    /\ i = 0 /\ sleeps = 0 /\ reqs = 0
    /\ task = [t \in Tasks |-> NewTask]
    /\ queue = <<>> /\ future = 0 /\ futures = <<>>
    /\ submitted = 0 /\ completed = 0 /\ yielded = {}
    /\ fut = 0 /\ elapsed_ms = 0
    /\ stats = [success |-> 0, failure |-> 0, latencies |-> <<>>]
    /\ cancelled = FALSE /\ hidx = 0 /\ done_count = 0
    /\ report = [kind |-> "none", success |-> 0, failure |-> 0,
                 samples |-> 0, total_requests |-> 0]
    /\ folds = [t \in Tasks |-> 0]
    /\ lastWrite = "none"
    /\ p99_in \in P99Inputs
    /\ p99_out = 0

\* print_stats computes p99 from the list it was given
ComputeP99 ==
    /\ pc = "print_stats"
    /\ p99_out' = PrintStatsP99(p99_in)
    /\ pc' = "printed"
    /\ UNCHANGED <<cfgVars, p99_in, folds, lastWrite, i, sleeps, reqs, task,
                   queue, future, futures, submitted, completed, yielded, fut,
                   elapsed_ms, stats, cancelled, hidx, done_count, report>>

NextP99 == ComputeP99

SpecP99 == InitP99 /\ [][NextP99]_vars

\* the same program with an event sink whose log calls may raise
NextSink ==
    \/ Next
    \/ InfoRaises
    \/ WarningRaises

SpecSink == Init /\ [][NextSink]_vars

\* ---- properties ---------------------------------------------------------------
Succeeded == {t \in Tasks : task[t].res = "ok"}

Failed == {t \in Tasks : task[t].res = "exc"}

Counted == stats.success + stats.failure

\* C1: when a run finishes in the Completed state, success + failure = total.
C1_CompletedCountsTotal ==
    pc = "Completed" => Counted = total

\* C2: after a Completed run the success count is the number of attempts whose
\* probe returned a latency and the failure count is the number of attempts
\* that failed after exhausting their retries.
C2_CountsMatchOutcomes ==
    pc = "Completed" =>
        /\ stats.success = Cardinality(Succeeded)
        /\ stats.failure = Cardinality(Failed)

\* C3: in every reachable state success + failure <= total.
C3_CountedAtMostTotal ==
    Counted <= total

\* C4: after an Interrupted run success + failure <= total and success +
\* failure is the done_count handed to the final report.
C4_InterruptedCountsDone ==
    pc = "Interrupted" =>
        /\ Counted <= total
        /\ Counted = done_count
        /\ report.total_requests = done_count

\* C5: every report (final or interrupt) shows as many latency samples as
\* successes, and success + failure never decreases from one report to the next.
C5_SnapshotConsistent ==
    /\ [](report.kind # "none" => report.samples = report.success)
    /\ [][report.success + report.failure
            <= report'.success + report'.failure]_vars

\* C6: query_motd_sync with retry budget r invokes the probe at most r+1 times;
\* a success after k failures returns after k+1 invocations with k warnings,
\* and a terminal failure comes after exactly r+1 invocations and r warnings.
C6_RetryBudget ==
    \A t \in Tasks :
        /\ task[t].st # "new" => task[t].calls <= retries + 1
        /\ task[t].res = "ok" =>
              /\ task[t].calls = task[t].warns + 1
              /\ task[t].warns <= retries
        /\ task[t].res = "exc" =>
              /\ task[t].calls = retries + 1
              /\ task[t].warns = retries
        /\ task[t].st = "running" => task[t].calls = task[t].warns

\* a task succeeded on its third invocation (retries = 2) and another task
\* failed terminally
C6_Witness ==
    /\ retries = 2
    /\ \E t \in Tasks : task[t].res = "ok" /\ task[t].warns = 2
    /\ \E t \in Tasks : task[t].res = "exc" /\ task[t].calls = 3

\* C7: the number of probe tasks executing at once is at most concurrency.
C7_RunningAtMostConcurrency ==
    Running <= concurrency

\* the pool is full (two tasks running) and a further task is waiting
C7_Witness ==
    /\ concurrency = 2
    /\ Running = 2
    /\ queue # <<>>

C9_NoWaitForUnfinishedTasks ==
    (cancelled /\ pc = "shutdown") => ENABLED ExecutorShutdown

\* C10: once the cancellation signal is delivered no queued task is started.
C10_NoStartAfterCancel ==
    [][cancelled =>
         \A t \in Tasks : task[t].st = "pending" => task'[t].st = "pending"]_vars

\* C11: after the cancellation signal the submission loop submits nothing
\* more: the pool's tasks, the futures list and the submitted count stay as
\* they were, and the run does not go on to Completed.
C11_NoSubmitAfterCancel ==
    [][/\ cancelled => /\ submitted' = submitted
                       /\ futures' = futures
                       /\ PoolTasks' = PoolTasks
       /\ cancelled' => pc' \in {"shutdown", "grace", "fold", "Interrupted"}]_vars

\* the run ended Interrupted after one submission out of several
C11_Witness ==
    /\ pc = "Interrupted"
    /\ submitted >= 1
    /\ submitted < total
    /\ yielded = {}

\* C12: a terminally failed probe does not abort the run: collecting its
\* future counts one failure and goes on to the next handle, and a run that
\* ends Completed has collected all total handles, failed ones included.
C12_FailureNotFatal ==
    [][/\ (pc = "except_inc" /\ pc' # pc /\ ~cancelled') =>
             /\ pc' = "completed_inc"
             /\ stats'.failure = stats.failure + 1
       /\ pc' = "Completed" =>
             /\ completed' = total
             /\ stats'.failure = Cardinality(Failed)']_vars

\* a Completed run in which a probe task failed terminally
C12_Witness ==
    /\ pc = "Completed"
    /\ Failed # {}
    /\ Succeeded # {}
    /\ completed = total

\* C13: after a Completed run the total handed to the final report is the
\* configured total.
C13_FinalReportTotal ==
    pc = "Completed" => report.total_requests = total

\* C14: a raising log call does not change the outcome: once status() has
\* returned, the task returns the latency without another probe invocation,
\* and a task fails terminally only after retries + 1 probe invocations.
C14_SinkFailureHarmless ==
    \A t \in Tasks :
        /\ task[t].okcalls >= 1 =>
              /\ task[t].res = "ok"
              /\ task[t].okcalls = 1
        /\ task[t].res = "exc" => task[t].calls = retries + 1

\* the configurations the claims call invalid
InvalidConfig ==
    concurrency <= 0 \/ total <= 0 \/ qps < 0 \/ timeout <= 0 \/ retries < 0

\* C16: an invalid configuration is rejected before the run leaves Idle: no
\* task is submitted, no probe is invoked and the stats stay empty.
C16_InvalidConfigRejected ==
    InvalidConfig =>
        /\ pc \in {"idle", "Rejected"}
        /\ PoolTasks = {}
        /\ \A t \in Tasks : task[t].calls = 0
        /\ submitted = 0 /\ futures = <<>> /\ reqs = 0 /\ sleeps = 0
        /\ stats = [success |-> 0, failure |-> 0, latencies |-> <<>>]

\* a configuration whose only fault is timeout <= 0 has been rejected
C16_Witness ==
    /\ pc = "Rejected"
    /\ concurrency >= 1 /\ total >= 1 /\ qps >= 0 /\ retries >= 0
    /\ timeout <= 0

\* C17: with qps > 0 every submission is preceded by one sleep of 1/qps, so
\* k submissions come with at least k - 1 (in fact k) sleeps; with qps = 0
\* there is no sleep at all.
C17_OneDelayPerSubmission ==
    /\ qps > 0 =>
          /\ sleeps >= Cardinality(PoolTasks)
          /\ sleeps <= Cardinality(PoolTasks) + 1
          /\ pc = "submit" => sleeps = Cardinality(PoolTasks) + 1
    /\ qps <= 0 => sleeps = 0

\* all of several tasks have been submitted under a rate limit
C17_Witness ==
    /\ qps > 0
    /\ total >= 2
    /\ Cardinality(PoolTasks) = total
    /\ sleeps = total

\* C18: no future contributes more than one increment to success + failure.
C18_FoldedAtMostOnce ==
    \A t \in Tasks : folds[t] <= 1

\* C20: when the collecting loop redraws the bar after an error line, the
\* error line is still the last thing written to the console.
C20_ErrorThenRedrawExclusive ==
    pc = "except_draw" => lastWrite = "error"

\* C19: without a cancellation signal and with terminating probes, every
\* submitted task completes and the run reaches Completed with the collected
\* count equal to total.
C19_EventuallyCompleted ==
    ~InvalidConfig =>
        <>(/\ pc = "Completed"
           /\ completed = total
           /\ \A t \in Tasks : task[t].st = "done")

\* a run of several tasks has reached Completed with everything collected
C19_Witness ==
    /\ pc = "Completed"
    /\ total >= 2
    /\ completed = total
    /\ \A t \in Tasks : task[t].st = "done"

\* v is the element at 0-based index k of s sorted ascending
IsAtSortedIndex(s, k, v) ==
    /\ \E j \in 1..Len(s) : s[j] = v
    /\ Cardinality({j \in 1..Len(s) : s[j] < v}) <= k
    /\ Cardinality({j \in 1..Len(s) : s[j] <= v}) >= k + 1

IsMaximum(s, v) ==
    /\ \E j \in 1..Len(s) : s[j] = v
    /\ \A j \in 1..Len(s) : s[j] <= v

\* C15: P99 of n >= 1 samples is the element at 0-based index
\* floor(0.99 * n) - 1 of the ascending order when n >= 100 and the maximum
\* when n < 100; samples 1..150 give 148 and samples 10, 20, 30 give 30.
C15_P99Rule ==
    pc = "printed" =>
        LET n == Len(p99_in) IN
        /\ n >= 100 => IsAtSortedIndex(p99_in, (99 * n) \div 100 - 1, p99_out)
        /\ n < 100 => IsMaximum(p99_in, p99_out)
        /\ p99_in = Ascending(150) => p99_out = 148
        /\ p99_in = <<10, 20, 30>> => p99_out = 30

\* the P99 of the samples 1..150 has been computed
C15_Witness ==
    /\ pc = "printed"
    /\ p99_in = Ascending(150)
    /\ p99_out = 148
====
